---- MODULE Spec2Model ----
(***************************************************************************)
(* A model of plotPNG.c: a command-line program that validates its         *)
(* arguments, opens a PNG file, allocates a pixel buffer, compiles a       *)
(* mathematical expression, rasterizes it (a curve for f(x), a heat map    *)
(* for f(x,y)), encodes the buffer and releases it.                        *)
(*                                                                         *)
(* Numbers: the program accumulates its sample coordinates in C floats.    *)
(* The model keeps every sampled value as an exact fraction num/den        *)
(* (x = i/(W*50) in the curve loop, x = i/H and y = j/W in the surface     *)
(* loop); the rounding error of the float accumulation is not modelled.    *)
(* Strings are sequences of one-character strings so that strchr and       *)
(* strstr are computed on the text.                                        *)
(***************************************************************************)
EXTENDS Integers, Sequences, FiniteSets, TLC

(***************************************************************************)
(* Bounds of the model.  The program hard-codes 300 x 300; the model runs  *)
(* it for every width and height in 1..MaxDim.                             *)
(***************************************************************************)
MaxDim == 3

\* the x oversampling factor of the curve loop: i < imgWidth*50
OverSample == 50

\* the channel value of a white background pixel and of full intensity
FullByte == 255

(***************************************************************************)
(* Texts                                                                   *)
(***************************************************************************)
PngExt == <<".", "p", "n", "g">>

FileNames ==
  { <<"a", ".", "p", "n", "g">>,
    <<"o", "u", "t">> }

\* strchr(s, ch) != NULL
StrChr(s, ch) == \E k \in 1..Len(s) : s[k] = ch

\* strstr(s, sub) != NULL
StrStr(s, sub) ==
  \E k \in 1..(Len(s) - Len(sub) + 1) :
     \A m \in 1..Len(sub) : s[k + m - 1] = sub[m]

(***************************************************************************)
(* The expression evaluator (tinyexpr).  Each text the model feeds to the  *)
(* program is listed with what the evaluator makes of it: whether it       *)
(* compiles and, if so, the function a*x + b*y + c it denotes.             *)
(***************************************************************************)
ExprTable ==
  { [text |-> <<"x">>,                     ok |-> TRUE,  a |-> 1, b |-> 0,  c |-> 0],
    [text |-> <<"2">>,                     ok |-> TRUE,  a |-> 0, b |-> 0,  c |-> 2],
    [text |-> <<"x", "-", "1">>,           ok |-> TRUE,  a |-> 1, b |-> 0,  c |-> -1],
    [text |-> <<"1", "-", "x">>,           ok |-> TRUE,  a |-> -1, b |-> 0, c |-> 1],
    [text |-> <<"x", "+", "y">>,           ok |-> TRUE,  a |-> 1, b |-> 1,  c |-> 0],
    [text |-> <<"x", "-", "y">>,           ok |-> TRUE,  a |-> 1, b |-> -1, c |-> 0],
    [text |-> <<"y">>,                     ok |-> TRUE,  a |-> 0, b |-> 1,  c |-> 0],
    [text |-> <<"5", "+", "0", "*", "y">>, ok |-> TRUE,  a |-> 0, b |-> 0,  c |-> 5],
    [text |-> <<"k", "^", "2">>,           ok |-> FALSE, a |-> 0, b |-> 0,  c |-> 0],
    [text |-> <<"y", "^">>,                ok |-> FALSE, a |-> 0, b |-> 0,  c |-> 0],
    [text |-> <<"y", "=", "x">>,           ok |-> FALSE, a |-> 0, b |-> 0,  c |-> 0] }

ExprTexts == { e.text : e \in ExprTable }

\* te_compile: the compiled expression of a text (ok = FALSE: a null pointer)
te_compile(text) == CHOOSE e \in ExprTable : e.text = text

\* te_eval at x = xn/den, y = yn/den: the numerator of the result over den
te_eval(n, xn, yn, den) == n.a * xn + n.b * yn + n.c * den

(***************************************************************************)
(* Arithmetic of the C conversions                                         *)
(***************************************************************************)
\* conversion of the real num/den (den > 0) to an integer type: C truncates
\* toward zero
Trunc(num, den) ==
  IF num >= 0 THEN num \div den ELSE -((-num) \div den)

(***************************************************************************)
(* Pixels and buffers                                                      *)
(***************************************************************************)
\* the three bytes of a pixel that malloc returned and nobody wrote
Uninit == <<-1, -1, -1>>
White == <<FullByte, FullByte, FullByte>>
Blue == <<0, 0, FullByte>>
Red == <<FullByte, 0, 0>>

\* what a conversion of a NaN to png_byte may store (undefined in C)
UndefBytes == {0, FullByte}

NoExpr == [text |-> <<>>, ok |-> FALSE, a |-> 0, b |-> 0, c |-> 0]
NoWrite == [row |-> -1, col |-> -1, num |-> 0, den |-> 1]

VARIABLES
  argv,          \* the arguments after the program name (argc = Len(argv) + 1)
  imgWidth,      \* pngData.imgWidth
  imgHeight,     \* pngData.imgHeight
  pc,            \* the position of the process
  abortReason,   \* which abortProgram call ended the process ("" if none)
  stderr,        \* the warnings printed so far
  fileCreated,   \* fopen(fileName, "wb") has created or truncated the file
  fileOpen,      \* the FILE handle is open
  fileData,      \* how far the PNG stream has been written
  encoded,       \* the buffer as png_write_image read it
  bufAllocated,  \* rowPointers and the rows are allocated and not freed
  rows,          \* the pixel buffer: rows[r][c], r in 0..H-1, c in 0..W-1
  n,             \* the compiled expression
  nLive,         \* n is compiled and not yet te_free'd
  evalCalls,     \* number of te_eval calls so far
  i, j,          \* the loop counters of makeImageData
  min, max,      \* numerators of the running minimum and maximum
  z_values,      \* numerators of the stored surface samples
  lastWrite,     \* the last pixel store of the curve loop and its result
  heapCorrupt,   \* a store outside the buffer has happened
  divByZero      \* the normalisation divided by max - min = 0

vars == <<argv, imgWidth, imgHeight, pc, abortReason, stderr, fileCreated,
          fileOpen, fileData, encoded, bufAllocated, rows, n, nLive, evalCalls, i, j,
          min, max, z_values, lastWrite, heapCorrupt, divByZero>>

argc == Len(argv) + 1

ArgLists ==
  { <<f>> : f \in FileNames }
    \cup { <<f, e>> : f \in FileNames, e \in ExprTexts }
    \cup { <<f, e, e>> : f \in {<<"a", ".", "p", "n", "g">>}, e \in {<<"x">>} }

Init ==
  /\ argv \in ArgLists
  /\ imgWidth \in 1..MaxDim
  /\ imgHeight \in 1..MaxDim
  /\ pc = "checkArgc"
  /\ abortReason = ""
  /\ stderr = {}
  /\ fileCreated = FALSE
  /\ fileOpen = FALSE
  /\ fileData = "none"
  /\ encoded = << >>
  /\ bufAllocated = FALSE
  /\ rows = << >>
  /\ n = NoExpr
  /\ nLive = FALSE
  /\ evalCalls = 0
  /\ i = 0
  /\ j = 0
  /\ min = 0
  /\ max = 0
  /\ z_values = << >>
  /\ lastWrite = NoWrite
  /\ heapCorrupt = FALSE
  /\ divByZero = FALSE

\* abortProgram: message to stderr, then abort(); nothing is released
abortProgram(reason) ==
  /\ pc' = "aborted"
  /\ abortReason' = reason

(***************************************************************************)
(* main: the argument checks                                               *)
(***************************************************************************)
\* CheckArgc with the abort forgotten: a wrong argument count falls through
CheckArgcFallsThrough ==
  /\ pc = "checkArgc"
  /\ pc' = "checkFile"
  /\ UNCHANGED <<argv, imgWidth, imgHeight, abortReason, stderr, fileCreated,
                 fileOpen, fileData, encoded, bufAllocated, rows, n, nLive,
                 evalCalls, i, j, min, max, z_values, lastWrite, heapCorrupt,
                 divByZero>>

CheckArgc ==
  /\ pc = "checkArgc"
  /\ IF argc # 3
       THEN abortProgram("argc")
       ELSE pc' = "checkFile" /\ UNCHANGED abortReason
  /\ UNCHANGED <<argv, imgWidth, imgHeight, stderr, fileCreated, fileOpen,
                 fileData, encoded, bufAllocated, rows, n, nLive, evalCalls, i, j,
                 min, max, z_values, lastWrite, heapCorrupt, divByZero>>

CheckFileName ==
  /\ pc = "checkFile"
  /\ IF ~StrStr(argv[1], PngExt)
       THEN abortProgram("filename")
       ELSE pc' = "checkExpr" /\ UNCHANGED abortReason
  /\ UNCHANGED <<argv, imgWidth, imgHeight, stderr, fileCreated, fileOpen,
                 fileData, encoded, bufAllocated, rows, n, nLive, evalCalls, i, j,
                 min, max, z_values, lastWrite, heapCorrupt, divByZero>>

\* the "=" check and the two warnings that follow it
CheckExpression ==
  /\ pc = "checkExpr"
  /\ IF StrChr(argv[2], "=")
       THEN /\ abortProgram("equals")
            /\ UNCHANGED stderr
       ELSE /\ pc' = "header"
            /\ UNCHANGED abortReason
            /\ stderr' =
                 (IF StrChr(argv[2], "y") /\ ~StrChr(argv[2], "x")
                    THEN {"no x variable"} ELSE {})
                 \cup
                 (IF imgHeight > 1400 \/ imgWidth > 1400
                    THEN {"large dimensions"} ELSE {})
  /\ UNCHANGED <<argv, imgWidth, imgHeight, fileCreated, fileOpen,
                 fileData, encoded, bufAllocated, rows, n, nLive, evalCalls, i, j,
                 min, max, z_values, lastWrite, heapCorrupt, divByZero>>

(***************************************************************************)
(* writePngFileHeader: fopen(fileName, "wb"), then the libpng set-up.      *)
(* The environment decides whether the open and the set-up succeed.        *)
(***************************************************************************)
writePngFileHeader ==
  /\ pc = "header"
  /\ \E outcome \in {"ok", "fopen", "png_init"} :
       CASE outcome = "fopen" ->
              /\ abortProgram("fopen")
              /\ UNCHANGED <<fileCreated, fileOpen>>
         [] outcome = "png_init" ->
              /\ fileCreated' = TRUE
              /\ fileOpen' = TRUE
              /\ abortProgram("png_init")
         [] OTHER ->
              /\ fileCreated' = TRUE
              /\ fileOpen' = TRUE
              /\ pc' = "alloc"
              /\ UNCHANGED abortReason
  /\ UNCHANGED <<argv, imgWidth, imgHeight, stderr, fileData, encoded,
                 bufAllocated, rows, n, nLive, evalCalls, i, j, min, max,
                 z_values, lastWrite, heapCorrupt, divByZero>>

\* allocateImageMemory: imgHeight rows of imgWidth pixels, contents unset
allocateImageMemory ==
  /\ pc = "alloc"
  /\ bufAllocated' = TRUE
  /\ rows' = [r \in 0..(imgHeight - 1) |-> [c \in 0..(imgWidth - 1) |-> Uninit]]
  /\ pc' = "compile"
  /\ UNCHANGED <<argv, imgWidth, imgHeight, abortReason, stderr, fileCreated,
                 fileOpen, fileData, encoded, n, nLive, evalCalls, i, j, min,
                 max, z_values, lastWrite, heapCorrupt, divByZero>>

(***************************************************************************)
(* makeImageData                                                           *)
(***************************************************************************)
\* fxy_check = strchr(expression, 'y') is not NULL
fxy_check == StrChr(argv[2], "y")

\* n = te_compile(...); if ( !n ) abortProgram
Compile ==
  /\ pc = "compile"
  /\ n' = te_compile(argv[2])
  /\ IF ~n'.ok
       THEN /\ abortProgram("compile")
            /\ UNCHANGED nLive
       ELSE /\ nLive' = TRUE
            /\ pc' = "dimCheck"
            /\ UNCHANGED abortReason
  /\ UNCHANGED <<argv, imgWidth, imgHeight, stderr, fileCreated, fileOpen,
                 fileData, encoded, bufAllocated, rows, evalCalls, i, j, min,
                 max, z_values, lastWrite, heapCorrupt, divByZero>>

\* DimensionError with the comparison of the dimensions one-sided
DimensionErrorOneSided == fxy_check /\ imgHeight > imgWidth

\* fxy_check != NULL && imgHeight != imgWidth
DimensionError == fxy_check /\ imgHeight # imgWidth

\* if ( DimensionError ) abortProgram; then the branch on fxy_check
DimensionCheck ==
  /\ pc = "dimCheck"
  /\ IF DimensionError
       THEN abortProgram("dimension")
       ELSE /\ pc' = IF ~fxy_check THEN "white" ELSE "surfSample"
            /\ UNCHANGED abortReason
  /\ i' = 0
  /\ j' = 0
  /\ UNCHANGED <<argv, imgWidth, imgHeight, stderr, fileCreated, fileOpen,
                 fileData, encoded, bufAllocated, rows, n, nLive, evalCalls,
                 min, max, z_values, lastWrite, heapCorrupt, divByZero>>

\* colouring background white: one row per step
WhiteRow ==
  /\ pc = "white"
  /\ IF i < imgHeight
       THEN /\ rows' = [rows EXCEPT ![i] = [c \in 0..(imgWidth - 1) |-> White]]
            /\ i' = i + 1
            /\ pc' = pc
       ELSE /\ i' = 0
            /\ pc' = "curve"
            /\ UNCHANGED rows
  /\ UNCHANGED <<argv, imgWidth, imgHeight, abortReason, stderr, fileCreated,
                 fileOpen, fileData, encoded, bufAllocated, n, nLive,
                 evalCalls, j, min, max, z_values, lastWrite, heapCorrupt,
                 divByZero>>

\* the denominator of the curve samples: x_incr = i / (imgWidth*50)
CurveDen == imgWidth * OverSample

\* InRange with the test left out
InRangeNoTest(num, den) == TRUE

\* if ( result < 1 ): the only test before a sample is plotted
InRange(num, den) == num < den

\* x_pixel = x_incr*imgWidth at sample k
XPixel(k) == Trunc(k * imgWidth, CurveDen)

\* y_pixel = result*imgHeight
YPixel(num, den) == Trunc(num * imgHeight, den)

\* CurveRow without the vertical flip
CurveRowNoFlip(num, den) == YPixel(num, den)

\* the row of the store: (imgHeight-1) - y_pixel
CurveRow(num, den) == (imgHeight - 1) - YPixel(num, den)

\* one iteration of the sampling loop of the curve branch
CurveSample ==
  /\ pc = "curve"
  /\ i < imgWidth * OverSample
  /\ evalCalls' = evalCalls + 1
  /\ i' = i + 1
  /\ LET result == te_eval(n, i, 0, CurveDen)
         row == CurveRow(result, CurveDen)
         col == XPixel(i)
     IN IF InRange(result, CurveDen)
          THEN /\ lastWrite' = [row |-> row, col |-> col,
                                num |-> result, den |-> CurveDen]
               /\ IF row \in 0..(imgHeight - 1) /\ col \in 0..(imgWidth - 1)
                    THEN /\ rows' = [rows EXCEPT ![row][col] = Blue]
                         /\ pc' = pc
                         /\ UNCHANGED heapCorrupt
                    ELSE \* a store through a pointer read past the row table
                         /\ heapCorrupt' = TRUE
                         /\ UNCHANGED rows
                         /\ \/ pc' = "crashed"
                            \/ pc' = pc
          ELSE /\ pc' = pc
               /\ UNCHANGED <<rows, lastWrite, heapCorrupt>>
  /\ UNCHANGED <<argv, imgWidth, imgHeight, abortReason, stderr, fileCreated,
                 fileOpen, fileData, encoded, bufAllocated, n, nLive, j, min,
                 max, z_values, divByZero>>

\* the end of the curve loop: te_free(n) and return
CurveDone ==
  /\ pc = "curve"
  /\ i >= imgWidth * OverSample
  /\ nLive' = FALSE
  /\ pc' = "writeData"
  /\ UNCHANGED <<argv, imgWidth, imgHeight, abortReason, stderr, fileCreated,
                 fileOpen, fileData, encoded, bufAllocated, rows, n,
                 evalCalls, i, j, min, max, z_values, lastWrite, heapCorrupt,
                 divByZero>>

\* the denominator of the surface samples: x_incr = i/imgHeight and
\* y_incr = j/imgWidth, both over imgWidth*imgHeight
SurfDen == imgWidth * imgHeight

\* the sample at grid cell (xi, yi), as a numerator over SurfDen
SurfValue(xi, yi) == te_eval(n, xi * imgWidth, yi * imgHeight, SurfDen)

\* the update of max by one sample: initialised by the first sample
NewMax(first, result, mx) ==
  IF first THEN result ELSE IF result > mx THEN result ELSE mx

\* NewMin without the initialisation from the first sample
NewMinNoInit(first, result, mx, mn) ==
  IF result > mx THEN mn
  ELSE IF result < mn THEN result ELSE mn

\* the update of min by one sample: tested only when max was not raised
NewMin(first, result, mx, mn) ==
  IF first THEN result
  ELSE IF result > mx THEN mn
  ELSE IF result < mn THEN result ELSE mn

\* one iteration of the inner loop of the first pass of the surface branch
SurfaceSample ==
  /\ pc = "surfSample"
  /\ i < imgWidth
  /\ LET result == SurfValue(i, j)
     IN /\ max' = NewMax(i = 0 /\ j = 0, result, max)
        /\ min' = NewMin(i = 0 /\ j = 0, result, max, min)
        /\ z_values' = (<<i, j>> :> result) @@ z_values
  /\ evalCalls' = evalCalls + 1
  /\ IF j + 1 < imgHeight
       THEN j' = j + 1 /\ i' = i
       ELSE j' = 0 /\ i' = i + 1
  /\ UNCHANGED <<argv, imgWidth, imgHeight, pc, abortReason, stderr,
                 fileCreated, fileOpen, fileData, encoded, bufAllocated, rows,
                 n, nLive, lastWrite, heapCorrupt, divByZero>>

\* the end of the first pass: te_free(n)
SurfaceSampleDone ==
  /\ pc = "surfSample"
  /\ i >= imgWidth
  /\ nLive' = FALSE
  /\ i' = 0
  /\ j' = 0
  /\ pc' = "surfPlot"
  /\ UNCHANGED <<argv, imgWidth, imgHeight, abortReason, stderr, fileCreated,
                 fileOpen, fileData, encoded, bufAllocated, rows, n,
                 evalCalls, min, max, z_values, lastWrite, heapCorrupt,
                 divByZero>>

\* SurfRow without the -1
SurfRowOffByOne(xi) == imgWidth - xi

\* the row of the store of grid cell (xi, yi): (imgWidth-1) - i
SurfRow(xi) == (imgWidth - 1) - xi

\* the column of the store of grid cell (xi, yi)
SurfCol(yi) == yi

\* ptr[0] = 255 * (1 - p) with p = (z - mn)/(mx - mn), mx > mn
RedOf(z, mn, mx) == Trunc(FullByte * ((mx - mn) - (z - mn)), mx - mn)

\* ptr[2] = 255 * p with p = (z - mn)/(mx - mn), mx > mn
BlueOf(z, mn, mx) == Trunc(FullByte * (z - mn), mx - mn)

\* the colours a cell may get: p is 0/0 when mx = mn, and the conversion of
\* the resulting NaN to a byte is undefined
CellColours(z, mn, mx) ==
  IF mx = mn
    THEN { <<u, 0, u>> : u \in UndefBytes }
    ELSE { <<RedOf(z, mn, mx), 0, BlueOf(z, mn, mx)>> }

\* one iteration of the inner loop of the second pass of the surface branch
SurfacePlot ==
  /\ pc = "surfPlot"
  /\ i < imgWidth
  /\ divByZero' = (divByZero \/ max = min)
  /\ \E colour \in CellColours(z_values[<<i, j>>], min, max) :
       rows' = [rows EXCEPT ![SurfRow(i)][SurfCol(j)] = colour]
  /\ IF j + 1 < imgHeight
       THEN j' = j + 1 /\ i' = i
       ELSE j' = 0 /\ i' = i + 1
  /\ UNCHANGED <<argv, imgWidth, imgHeight, pc, abortReason, stderr,
                 fileCreated, fileOpen, fileData, encoded, bufAllocated, n,
                 nLive, evalCalls, min, max, z_values, lastWrite, heapCorrupt>>

\* the end of the second pass: makeImageData returns
SurfacePlotDone ==
  /\ pc = "surfPlot"
  /\ i >= imgWidth
  /\ pc' = "writeData"
  /\ UNCHANGED <<argv, imgWidth, imgHeight, abortReason, stderr, fileCreated,
                 fileOpen, fileData, encoded, bufAllocated, rows, n, nLive,
                 evalCalls, i, j, min, max, z_values, lastWrite, heapCorrupt,
                 divByZero>>

(***************************************************************************)
(* The encoder and the release of the resources                            *)
(***************************************************************************)
\* writePngFileData: png_write_info and png_write_image of the buffer
writePngFileData ==
  /\ pc = "writeData"
  /\ \E outcome \in {"ok", "error"} :
       IF outcome = "error"
         THEN /\ abortProgram("write")
              /\ fileData' = "partial"
              /\ UNCHANGED encoded
         ELSE /\ fileData' = "image"
              /\ encoded' = rows
              /\ pc' = "trailer"
              /\ UNCHANGED abortReason
  /\ UNCHANGED <<argv, imgWidth, imgHeight, stderr, fileCreated, fileOpen,
                 bufAllocated, rows, n, nLive, evalCalls, i, j, min, max,
                 z_values, lastWrite, heapCorrupt, divByZero>>

\* writePngFileTrailer: png_write_end, then fclose
writePngFileTrailer ==
  /\ pc = "trailer"
  /\ \E outcome \in {"ok", "error"} :
       IF outcome = "error"
         THEN /\ abortProgram("end")
              /\ UNCHANGED <<fileData, fileOpen>>
         ELSE /\ fileData' = "complete"
              /\ fileOpen' = FALSE
              /\ pc' = "free"
              /\ UNCHANGED abortReason
  /\ UNCHANGED <<argv, imgWidth, imgHeight, stderr, fileCreated, encoded,
                 bufAllocated, rows, n, nLive, evalCalls, i, j, min, max,
                 z_values, lastWrite, heapCorrupt, divByZero>>

\* freeImageMemory, then the confirmation message and return 0
freeImageMemory ==
  /\ pc = "free"
  /\ bufAllocated' = FALSE
  /\ rows' = << >>
  /\ pc' = "done"
  /\ UNCHANGED <<argv, imgWidth, imgHeight, abortReason, stderr, fileCreated,
                 fileOpen, fileData, encoded, n, nLive, evalCalls, i, j, min,
                 max, z_values, lastWrite, heapCorrupt, divByZero>>

Next ==
  \/ CheckArgc
  \/ CheckFileName
  \/ CheckExpression
  \/ writePngFileHeader
  \/ allocateImageMemory
  \/ Compile
  \/ DimensionCheck
  \/ WhiteRow
  \/ CurveSample
  \/ CurveDone
  \/ SurfaceSample
  \/ SurfaceSampleDone
  \/ SurfacePlot
  \/ SurfacePlotDone
  \/ writePngFileData
  \/ writePngFileTrailer
  \/ freeImageMemory

Spec == Init /\ [][Next]_vars

(***************************************************************************)
(* Properties                                                              *)
(***************************************************************************)
RowIdx == 0..(imgHeight - 1)
ColIdx == 0..(imgWidth - 1)

\* makeImageData has returned and the buffer has not been freed yet
Rasterized == pc \in {"writeData", "trailer", "free"}

\* the process is somewhere in makeImageData's loops or after them
PastDimensionCheck ==
  pc \in {"white", "curve", "surfSample", "surfPlot", "writeData", "trailer",
          "free", "done", "crashed"}

UsageReasons == {"argc", "filename", "equals"}

\* C1: a wrong argument count, a file name without ".png" and an expression
\* with "=" each abort the process, checked in that order, before the output
\* file is opened and before the expression is compiled or evaluated.
UsageErrorsAbortBeforeAnyWork ==
  /\ argc # 3 =>
       /\ pc \in {"checkArgc", "aborted"}
       /\ pc = "aborted" => abortReason = "argc"
  /\ (argc = 3 /\ ~StrStr(argv[1], PngExt)) =>
       /\ pc \in {"checkArgc", "checkFile", "aborted"}
       /\ pc = "aborted" => abortReason = "filename"
  /\ (argc = 3 /\ StrStr(argv[1], PngExt) /\ StrChr(argv[2], "=")) =>
       /\ pc \in {"checkArgc", "checkFile", "checkExpr", "aborted"}
       /\ pc = "aborted" => abortReason = "equals"
  /\ abortReason \in UsageReasons =>
       /\ pc = "aborted"
       /\ ~fileCreated
       /\ ~fileOpen
       /\ fileData = "none"
       /\ n = NoExpr
       /\ ~nLive
       /\ evalCalls = 0

UsageErrorWitness ==
  /\ pc = "aborted"
  /\ abortReason = "equals"
  /\ StrStr(argv[1], PngExt)

\* C2: when the run ends in a compile error or a dimension error, the output
\* file has not been created or truncated and no buffer has been allocated.
NoOutputOnCompileOrDimensionError ==
  abortReason \in {"compile", "dimension"} =>
    /\ ~fileCreated
    /\ ~bufAllocated

\* C3: in surface mode with width # height the run never samples: the
\* evaluator is never called, no pixel is written, and once the expression
\* has compiled the run ends in the dimension error.
DimensionErrorBeforeSampling ==
  /\ (argc = 3 /\ StrChr(argv[2], "y") /\ imgWidth # imgHeight) =>
       /\ ~PastDimensionCheck
       /\ evalCalls = 0
       /\ bufAllocated => \A r \in RowIdx, c \in ColIdx : rows[r][c] = Uninit
       /\ pc = "aborted" =>
            abortReason \in UsageReasons \cup {"fopen", "png_init", "compile",
                                               "dimension"}
  /\ abortReason = "dimension" =>
       /\ StrChr(argv[2], "y")
       /\ imgWidth # imgHeight
       /\ evalCalls = 0

DimensionErrorWitness ==
  /\ pc = "aborted"
  /\ abortReason = "dimension"
  /\ bufAllocated

\* C4: in curve mode a pixel is stored only for a result in [0, 1), and every
\* store targets a row in 0..H-1 and a column in 0..W-1.
CurveStoresOnlyInRange ==
  lastWrite # NoWrite =>
    /\ 0 <= lastWrite.num
    /\ lastWrite.num < lastWrite.den
    /\ lastWrite.row \in RowIdx
    /\ lastWrite.col \in ColIdx

\* every sample of the curve loop evaluates to 1 or more
AllSamplesOffCanvas ==
  \A k \in 0..(CurveDen - 1) : te_eval(n, k, 0, CurveDen) >= CurveDen

\* C5: in curve mode with an expression that is >= 1 at every sample, no
\* pixel is stored by the sampling loop and, after rasterization, every pixel
\* is white.
OffCanvasCurveStaysWhite ==
  (n.ok /\ ~StrChr(argv[2], "y") /\ AllSamplesOffCanvas) =>
    /\ lastWrite = NoWrite
    /\ ~heapCorrupt
    /\ (pc = "curve" \/ Rasterized) =>
         \A r \in RowIdx, c \in ColIdx : rows[r][c] = White
    /\ fileData = "image" =>
         \A r \in RowIdx, c \in ColIdx : encoded[r][c] = White

OffCanvasCurveWitness ==
  /\ pc = "trailer"
  /\ argv[2] = <<"2">>
  /\ evalCalls = imgWidth * OverSample
  /\ imgWidth = 2

\* the buffer holds the line the claim describes: every blue pixel sits at
\* row (H-1) - floor(col/W * H) and every other pixel is white
OnTheLine ==
  \A r \in RowIdx, c \in ColIdx :
     /\ rows[r][c] \in {Blue, White}
     /\ rows[r][c] = Blue => r = (imgHeight - 1) - ((c * imgHeight) \div imgWidth)

\* C6 (as stated): in curve mode with the expression "x", for any W and H,
\* after rasterization every blue pixel (col, row) satisfies
\* row = (H-1) - floor(col/W * H) and every other pixel is white.
CurveXOnTheLine ==
  (Rasterized /\ argv[2] = <<"x">>) => OnTheLine

\* C6 (amended): the same, for the dimensions where H divides W.
CurveXOnTheLineWhenHDividesW ==
  (Rasterized /\ argv[2] = <<"x">> /\ imgWidth % imgHeight = 0) => OnTheLine

CurveXWitness ==
  /\ Rasterized
  /\ argv[2] = <<"x">>
  /\ imgWidth = 2
  /\ imgHeight = 2
  /\ rows[0][1] = Blue
  /\ rows[1][0] = Blue

Cells == (0..(imgWidth - 1)) \X (0..(imgHeight - 1))

\* the first pass is over and the surface has been (or is being) coloured
SurfaceSampled ==
  /\ argc = 3
  /\ StrChr(argv[2], "y")
  /\ pc = "surfPlot" \/ Rasterized

\* C7: in surface mode, after the first pass min is the smallest and max the
\* largest of the N*N samples; when max > min, after the second pass every
\* cell holding min is pure red and every cell holding max pure blue; for
\* "x+y" min is the sample of cell (0,0) = 0 and max that of (N-1,N-1) =
\* 2(N-1)/N, cell (0,0) is red and cell (N-1,N-1) blue.
SurfaceMinMaxAndExtremeColours ==
  SurfaceSampled =>
    /\ DOMAIN z_values = Cells
    /\ \A cell \in Cells : z_values[cell] = SurfValue(cell[1], cell[2])
    /\ \A cell \in Cells : min <= z_values[cell] /\ z_values[cell] <= max
    /\ \E cell \in Cells : z_values[cell] = min
    /\ \E cell \in Cells : z_values[cell] = max
    /\ (Rasterized /\ max > min) =>
         \A cell \in Cells :
            /\ z_values[cell] = min =>
                 rows[(imgWidth - 1) - cell[1]][cell[2]] = Red
            /\ z_values[cell] = max =>
                 rows[(imgWidth - 1) - cell[1]][cell[2]] = Blue
    /\ argv[2] = <<"x", "+", "y">> =>
         /\ min = 0
         /\ min = z_values[<<0, 0>>]
         /\ max = z_values[<<imgWidth - 1, imgWidth - 1>>]
         /\ max = 2 * (imgWidth - 1) * imgWidth
         /\ (Rasterized /\ imgWidth > 1) =>
              /\ rows[imgWidth - 1][0] = Red
              /\ rows[0][imgWidth - 1] = Blue

SurfaceExtremesWitness ==
  /\ Rasterized
  /\ argv[2] = <<"x", "+", "y">>
  /\ imgWidth = 3
  /\ rows[2][0] = Red
  /\ rows[0][2] = Blue

\* the colour of the flat-surface policy p = 1/2
Midpoint == <<Trunc(FullByte, 2), 0, Trunc(FullByte, 2)>>

\* C8: in surface mode with max = min, rasterization completes without a
\* division by zero and every pixel gets the colour of p = 0.5.
FlatSurfaceGetsMidpointColour ==
  (argc = 3 /\ StrChr(argv[2], "y") /\ pc \in {"surfPlot", "writeData"}
     /\ max = min) =>
    /\ ~divByZero
    /\ pc = "writeData" => \A r \in RowIdx, c \in ColIdx : rows[r][c] = Midpoint

\* C9: when rasterization completes, in either mode, every pixel has been
\* assigned (the encoder never reads an unset pixel); curve mode has the
\* whole buffer white before it plots; surface cells map one-to-one onto the
\* pixels, with every index in 0..N-1.
EveryPixelAssigned ==
  /\ (Rasterized \/ pc = "curve") =>
       \A r \in RowIdx, c \in ColIdx : rows[r][c] # Uninit
  /\ fileData = "image" =>
       \A r \in RowIdx, c \in ColIdx : encoded[r][c] # Uninit
  /\ (pc = "curve" /\ i = 0) =>
       \A r \in RowIdx, c \in ColIdx : rows[r][c] = White
  /\ pc \in {"surfSample", "surfPlot"} =>
       /\ \A cell \in Cells :
             SurfRow(cell[1]) \in RowIdx /\ SurfCol(cell[2]) \in ColIdx
       /\ \A c1, c2 \in Cells :
             (SurfRow(c1[1]) = SurfRow(c2[1]) /\ SurfCol(c1[2]) = SurfCol(c2[2]))
               => c1 = c2
       /\ pc = "surfPlot" =>
            \A cell \in Cells :
               (cell[1] < i \/ (cell[1] = i /\ cell[2] < j))
                 <=> rows[(imgWidth - 1) - cell[1]][cell[2]] # Uninit

EveryPixelAssignedWitness ==
  /\ pc = "trailer"
  /\ StrChr(argv[2], "y")
  /\ imgWidth = 3
  /\ fileData = "image"

\* C10: on every exit path any buffer that was allocated has been freed and
\* any file handle that was opened has been closed when the process ends.
ResourcesReleasedAtExit ==
  pc \in {"done", "aborted", "crashed"} =>
    /\ ~bufAllocated
    /\ ~fileOpen

====
